---- MODULE Spec2Model ----
(***************************************************************************)
(* Model of brassicate/conda/env.py: the writable() context manager, the   *)
(* find_env() locator, update_from_yml() and set_env_vars().               *)
(*                                                                         *)
(* Text is modelled as a sequence of one-character strings, so that the    *)
(* Python substring test `a in b` is a real computation.  A file system    *)
(* holds, per environment, the canary file conda-meta/history (exists,     *)
(* mode) and its parent directory.  The process is single threaded: one    *)
(* call is in progress at a time and pc is its position.                   *)
(***************************************************************************)
EXTENDS Integers, Sequences, FiniteSets, TLC

\* ---------------------------------------------------------------- bounds
MaxEnvs == 1       \* named environments conda already knows initially
MaxList == 2       \* length of the environment list given to find_env alone
MaxVars == 2       \* pairs in the env_vars mapping

\* ------------------------------------------------------------- constants
S_IREAD == 256     \* stat.S_IREAD  = 0o400
S_IWRITE == 128    \* stat.S_IWRITE = 0o200
NewFileMode == 420 \* Path.touch(mode=0o666) under umask 0o022

\* ------------------------------------------------------------------ text
Base == <<"b", "a", "s", "e">>
EnvA == <<"a">>
EnvAB == <<"a", "b">>
Prefix == <<"/", "c">>
None == <<"None">>

\* environment names a manifest or a direct caller of writable() uses
Names == {Base, EnvA}
\* names asked of find_env() directly
QueryNames == Names \cup {EnvAB, << >>, <<"b">>, <<"e">>, <<"c", "a">>}

\* Python: a in b, for str
StrIn(a, b) ==
    \E i \in 0..(Len(b) - Len(a)) : SubSeq(b, i + 1, i + Len(a)) = a

\* conda_prefix / "envs" / env_name ; the base environment is the prefix
EnvPathOf(n) ==
    IF n = Base THEN Prefix ELSE Prefix \o <<"/", "e", "n", "v", "s", "/">> \o n

NoError == [type |-> "none", at |-> "none"]
Err(t, w) == [type |-> t, at |-> w]

Writable(m) == (m \div S_IWRITE) % 2 = 1
ReadOnly(m) == (m \div S_IREAD) % 2 = 1 /\ ~Writable(m)

VARIABLES
    files,            \* canary file per environment: [exists, mode]
    dirs,             \* does the canary file's parent directory exist
    owner,            \* may this process chmod the canary files
    dirWritable,      \* may this process create entries under conda_prefix
    envs,             \* "envs" of `conda info --json`
    pc,               \* position of the call in progress
    op,               \* which function the driver called
    env_name,
    enforce_readonly,
    manifest,         \* parsed environment.yml: [name, deps]
    env_path,         \* result of find_env
    cmds,             \* subprocess.run calls of the current call
    err,              \* exception the current call ended with
    entryErr,         \* exception raised before the yield of writable()
    bodyRan,          \* did the with-body start
    prev,             \* the call completed before the current one
    env_vars,         \* argument of set_env_vars
    scripts,          \* the four generated files: content or None
    scriptDirs        \* activate.d / deactivate.d exist

vars == <<files, dirs, owner, dirWritable, envs, pc, op, env_name,
          enforce_readonly, manifest, env_path, cmds, err, entryErr,
          bodyRan, prev, env_vars, scripts, scriptDirs>>

fsVars == <<files, dirs>>
worldVars == <<owner, dirWritable>>
scriptVars == <<env_vars, scripts, scriptDirs>>

\* ------------------------------------------------- file-system primitives
\* Each primitive takes and returns r = [files, dirs, err]; once r.err is
\* set an exception is propagating and the following statements are skipped.

\* Path.touch(k): utime on an existing file, else open(O_CREAT | O_WRONLY)
Touch(r, k) ==
    IF r.err # NoError THEN r
    ELSE IF r.files[k].exists
         THEN IF owner \/ Writable(r.files[k].mode)
              THEN r
              ELSE [r EXCEPT !.err = Err("PermissionError", "touch")]
    ELSE IF ~r.dirs[k]
         THEN [r EXCEPT !.err = Err("FileNotFoundError", "touch")]
    ELSE IF ~dirWritable
         THEN [r EXCEPT !.err = Err("PermissionError", "touch")]
    ELSE [r EXCEPT !.files[k] = [exists |-> TRUE, mode |-> NewFileMode]]

\* os.chmod(k, bits)
Chmod(r, k, bits) ==
    IF r.err # NoError THEN r
    ELSE IF ~r.files[k].exists
         THEN [r EXCEPT !.err = Err("FileNotFoundError", "chmod")]
    ELSE IF ~owner
         THEN [r EXCEPT !.err = Err("PermissionError", "chmod")]
    ELSE [r EXCEPT !.files[k].mode = bits]

\* k.parent.mkdir(parents=True, exist_ok=True)
Mkdir(r, k) ==
    IF r.err # NoError THEN r
    ELSE IF r.dirs[k] THEN r
    ELSE IF ~dirWritable
         THEN [r EXCEPT !.err = Err("PermissionError", "mkdir")]
    ELSE [r EXCEPT !.dirs[k] = TRUE]

\* ------------------------------------------------------------ writable()
\* an entry that forgets to make the named environment's file writable
EnterSteps_NoEnvChmod(r, n) ==
    LET b == Chmod(Touch(r, Base), Base, S_IWRITE)
    IN  IF n = Base THEN b
        ELSE Touch(Mkdir(b, n), n)

\* the try block up to the yield
EnterSteps(r, n) ==
    LET b == Chmod(Touch(r, Base), Base, S_IWRITE)
    IN  IF n = Base THEN b
        ELSE Chmod(Touch(Mkdir(b, n), n), n, S_IWRITE)

\* an exit that restores the base environment's file only
ExitSteps_BaseOnly(r, n, enforce) ==
    IF ~enforce THEN r ELSE Chmod(r, Base, S_IREAD)

\* the finally block; r.err is clear on entry (the pending exception is
\* kept by the caller of ExitSteps)
ExitSteps(r, n, enforce) ==
    IF ~enforce THEN r
    ELSE LET b == Chmod(r, Base, S_IREAD)
         IN  IF n = Base THEN b ELSE Chmod(b, n, S_IREAD)

\* an exception raised in the finally block replaces the pending one
Raised(pending, r) == IF r.err # NoError THEN r.err ELSE pending

\* -------------------------------------------------------------- find_env
\* a loop that keeps the last match instead of returning the first
RECURSIVE find_env_Last(_, _)
find_env_Last(n, env_path_list) ==
    IF env_path_list = << >> THEN None
    ELSE LET later == find_env_Last(n, Tail(env_path_list))
         IN  IF later # None THEN later
             ELSE IF StrIn(n, Head(env_path_list)) THEN Head(env_path_list)
             ELSE None

\* a loop that compares with == instead of in
RECURSIVE find_env_Exact(_, _)
find_env_Exact(n, env_path_list) ==
    IF env_path_list = << >> THEN None
    ELSE IF n = Head(env_path_list) THEN Head(env_path_list)
    ELSE find_env_Exact(n, Tail(env_path_list))

\* the for loop over env_path_list, with its else branch
RECURSIVE find_env(_, _)
find_env(n, env_path_list) ==
    IF env_path_list = << >> THEN None
    ELSE IF StrIn(n, Head(env_path_list)) THEN Head(env_path_list)
    ELSE find_env(n, Tail(env_path_list))

\* ------------------------------------------------------ the external tool
Range(s) == {s[i] : i \in 1..Len(s)}

\* exit statuses `conda env create` can report: it refuses a prefix that
\* already exists
CreateStatuses(n) == IF EnvPathOf(n) \in Range(envs) THEN {1} ELSE {0, 1}
UpdateStatuses == {0, 1}

Cmd(c, rc) == [cmd |-> c, rc |-> rc]

\* ------------------------------------------------------------- the driver
Manifests == [name : Names \cup {None}, deps : {<< >>, <<"numpy">>}]
NoManifest == [name |-> None, deps |-> None]
NoFiles == [k \in Names |-> [exists |-> FALSE, mode |-> 0]]
NoCall == [op |-> "none", manifest |-> NoManifest, enforce |-> FALSE,
           err |-> NoError, cmds |-> << >>, files |-> NoFiles]

\* the call that has just completed, remembered when the next one starts
Completed ==
    IF pc = "done" /\ op = "update_from_yml"
    THEN [op |-> op, manifest |-> manifest, enforce |-> enforce_readonly,
          err |-> err, cmds |-> cmds, files |-> files]
    ELSE NoCall

Idle == pc \in {"idle", "done"}

\* ------------------------------------------------------- update_from_yml
\* a lookup that falls back to the base environment instead of raising
NameLookup_Default(m) ==
    IF m.name = None THEN [err |-> NoError, name |-> Base]
    ELSE [err |-> NoError, name |-> m.name]

\* environment_yml["name"]: a missing key raises KeyError
NameLookup(m) ==
    IF m.name = None THEN [err |-> Err("KeyError", "manifest"), name |-> None]
    ELSE [err |-> NoError, name |-> m.name]

\* the branch that reverses the test on env_path
Chosen_Swapped(path) == IF path # None THEN "create" ELSE "update"

\* lines 86-91: update an environment that was found, else create it
Chosen(path) == IF path # None THEN "update" ELSE "create"

\* lines 75-78: load the manifest and take its name
UpdateParse(m, e) ==
    /\ Idle
    /\ prev' = Completed
    /\ op' = "update_from_yml"
    /\ manifest' = m
    /\ enforce_readonly' = e
    /\ cmds' = << >>
    /\ entryErr' = NoError
    /\ bodyRan' = FALSE
    /\ env_path' = None
    /\ LET l == NameLookup(m)
       IN  /\ err' = l.err
           /\ env_name' = l.name
           /\ pc' = IF l.err # NoError THEN "done" ELSE "find"
    /\ UNCHANGED <<fsVars, worldVars, envs, scriptVars>>

\* line 81: env_path = find_env(env_name); the query itself may fail, and
\* then its output is not JSON
UpdateFind ==
    /\ pc = "find"
    /\ \E ok \in BOOLEAN :
         IF ok
         THEN /\ env_path' = find_env(env_name, envs)
              /\ cmds' = Append(cmds, Cmd("info", 0))
              /\ pc' = "enter"
              /\ err' = err
         ELSE /\ env_path' = env_path
              /\ cmds' = Append(cmds, Cmd("info", 1))
              /\ err' = Err("JSONDecodeError", "find_env")
              /\ pc' = "done"
    /\ UNCHANGED <<fsVars, worldVars, envs, op, env_name, enforce_readonly,
                   manifest, entryErr, bodyRan, prev, scriptVars>>

\* lines 86-91: the with-body of update_from_yml
UpdateBody ==
    /\ pc = "body"
    /\ op = "update_from_yml"
    /\ bodyRan' = TRUE
    /\ pc' = "exit"
    /\ \/ \* the program cannot be started: subprocess.run raises
          /\ err' = Err("FileNotFoundError", "body")
          /\ UNCHANGED <<cmds, envs>>
       \/ /\ Chosen(env_path) = "update"
          /\ \E rc \in UpdateStatuses :
               cmds' = Append(cmds, Cmd("update", rc))
          /\ UNCHANGED <<err, envs>>
       \/ /\ Chosen(env_path) = "create"
          /\ \E rc \in CreateStatuses(env_name) :
               /\ cmds' = Append(cmds, Cmd("create", rc))
               /\ envs' = IF rc = 0 THEN Append(envs, EnvPathOf(env_name))
                          ELSE envs
          /\ err' = err
    /\ UNCHANGED <<fsVars, worldVars, op, env_name, enforce_readonly,
                   manifest, env_path, entryErr, prev, scriptVars>>

\* ------------------------------------------------------------ writable()
\* a direct `with writable(n, e):` by a caller other than update_from_yml
WritableCall(n, e) ==
    /\ Idle
    /\ prev' = Completed
    /\ op' = "writable"
    /\ manifest' = NoManifest
    /\ env_name' = n
    /\ enforce_readonly' = e
    /\ cmds' = << >>
    /\ err' = NoError
    /\ entryErr' = NoError
    /\ bodyRan' = FALSE
    /\ env_path' = None
    /\ pc' = "enter"
    /\ UNCHANGED <<fsVars, worldVars, envs, scriptVars>>

\* lines 31-42, and lines 43-48 at once when the try block raised
GuardEnter ==
    /\ pc = "enter"
    /\ LET r == EnterSteps([files |-> files, dirs |-> dirs, err |-> NoError],
                           env_name)
           x == ExitSteps([r EXCEPT !.err = NoError], env_name,
                          enforce_readonly)
       IN  IF r.err = NoError
           THEN /\ files' = r.files
                /\ dirs' = r.dirs
                /\ pc' = "body"
                /\ UNCHANGED <<err, entryErr>>
           ELSE /\ files' = x.files
                /\ dirs' = x.dirs
                /\ entryErr' = r.err
                /\ err' = Raised(r.err, x)
                /\ pc' = "done"
    /\ UNCHANGED <<worldVars, envs, op, env_name, enforce_readonly, manifest,
                   env_path, cmds, bodyRan, prev, scriptVars>>

\* the body of a direct caller: it returns or it raises
WritableBody ==
    /\ pc = "body"
    /\ op = "writable"
    /\ bodyRan' = TRUE
    /\ pc' = "exit"
    /\ \E raises \in BOOLEAN :
         err' = IF raises THEN Err("RuntimeError", "body") ELSE err
    /\ UNCHANGED <<fsVars, worldVars, envs, op, env_name, enforce_readonly,
                   manifest, env_path, cmds, entryErr, prev, scriptVars>>

\* lines 43-48 after the body
GuardExit ==
    /\ pc = "exit"
    /\ LET x == ExitSteps([files |-> files, dirs |-> dirs, err |-> NoError],
                          env_name, enforce_readonly)
       IN  /\ files' = x.files
           /\ dirs' = x.dirs
           /\ err' = Raised(err, x)
    /\ pc' = "done"
    /\ UNCHANGED <<worldVars, envs, op, env_name, enforce_readonly, manifest,
                   env_path, cmds, entryErr, bodyRan, prev, scriptVars>>

\* ------------------------------------------------------------------ Init
Absent == [exists |-> FALSE, mode |-> 0]
File(m) == [exists |-> TRUE, mode |-> m]

\* a canary file is absent (with or without its directory), freshly made
\* by conda, or was left read-only by an earlier run
InitFileStates ==
    {<<Absent, FALSE>>, <<Absent, TRUE>>, <<File(NewFileMode), TRUE>>,
     <<File(S_IREAD), TRUE>>}

NamedPaths == {EnvPathOf(EnvA), EnvPathOf(EnvAB)}

RECURSIVE SeqsUpTo(_, _)
SeqsUpTo(S, n) ==
    IF n = 0 THEN {<< >>}
    ELSE LET shorter == SeqsUpTo(S, n - 1)
         IN  shorter \cup {Append(s, x) : s \in shorter, x \in S}

Distinct(s) == \A i, j \in 1..Len(s) : i # j => s[i] # s[j]

\* conda lists the root prefix first, then the named environments
InitEnvLists ==
    {<<Prefix>> \o s : s \in {t \in SeqsUpTo(NamedPaths, MaxEnvs) : Distinct(t)}}

NoScripts == [f \in {"activate.sh", "activate.bat", "deactivate.sh",
                     "deactivate.bat"} |-> None]
NoScriptDirs == [d \in {"activate.d", "deactivate.d"} |-> FALSE]

InitCall ==
    /\ pc = "idle"
    /\ op = "none"
    /\ env_name = None
    /\ enforce_readonly = FALSE
    /\ manifest = NoManifest
    /\ env_path = None
    /\ cmds = << >>
    /\ err = NoError
    /\ entryErr = NoError
    /\ bodyRan = FALSE

Init ==
    /\ \E st \in [Names -> InitFileStates] :
         /\ files = [k \in Names |-> st[k][1]]
         /\ dirs = [k \in Names |-> st[k][2]]
    /\ owner \in BOOLEAN
    /\ dirWritable \in BOOLEAN
    /\ envs \in InitEnvLists
    /\ InitCall
    /\ prev = NoCall
    /\ env_vars = << >>
    /\ scripts = NoScripts
    /\ scriptDirs = NoScriptDirs

Next ==
    \/ \E m \in Manifests, e \in BOOLEAN : UpdateParse(m, e)
    \/ UpdateFind
    \/ UpdateBody
    \/ \E n \in Names, e \in BOOLEAN : WritableCall(n, e)
    \/ GuardEnter
    \/ WritableBody
    \/ GuardExit

Spec == Init /\ [][Next]_vars

\* ------------------------------------------ find_env called on its own
FindPaths == {Prefix, EnvPathOf(EnvA), EnvPathOf(EnvAB), EnvPathOf(<<"b">>)}

\* lines 51-59, for any list the query reports
FindEnvCall(q) ==
    /\ Idle
    /\ op' = "find_env"
    /\ env_name' = q
    /\ cmds' = <<Cmd("info", 0)>>
    /\ env_path' = find_env(q, envs)
    /\ err' = NoError
    /\ pc' = "done"
    /\ UNCHANGED <<fsVars, worldVars, envs, enforce_readonly, manifest,
                   entryErr, bodyRan, prev, scriptVars>>

InitFind ==
    /\ files = NoFiles
    /\ dirs = [k \in Names |-> FALSE]
    /\ owner = TRUE
    /\ dirWritable = TRUE
    /\ envs \in SeqsUpTo(FindPaths, MaxList)
    /\ InitCall
    /\ prev = NoCall
    /\ env_vars = << >>
    /\ scripts = NoScripts
    /\ scriptDirs = NoScriptDirs

NextFind == \E q \in QueryNames : FindEnvCall(q)

SpecFind == InitFind /\ [][NextFind]_vars

\* ----------------------------------------------------------- set_env_vars
FOO == <<"F", "O", "O">>
BAR == <<"B", "A", "R">>
bar == <<"b", "a", "r">>
one == <<"1">>
VarNames == {FOO, BAR}
VarValues == {bar, one}

ShHeader == <<"#", "!", "/", "b", "i", "n", "/", "s", "h", "\n">>
ExportKw == <<"e", "x", "p", "o", "r", "t", " ">>
UnsetKw == <<"u", "n", "s", "e", "t", " ">>
SetKw == <<"s", "e", "t", " ">>
Eq == <<"=">>
NL == <<"\n">>

\* list += str : the list is extended by the characters of the string
Extend(list, str) == list \o [i \in 1..Len(str) |-> <<str[i]>>]

\* f.writelines(list): the items one after the other
RECURSIVE Join(_)
Join(list) == IF list = << >> THEN << >> ELSE Head(list) \o Join(Tail(list))

\* lines 110-129: the four buffers after the loop over env_vars.items()
RECURSIVE Buffers(_, _)
Buffers(b, items) ==
    IF items = << >> THEN b
    ELSE LET var == Head(items)[1]
             val == Head(items)[2]
         IN  Buffers(
               [activate_sh |-> Extend(b.activate_sh,
                                       ExportKw \o var \o Eq \o val \o NL),
                deactivate_sh |-> Extend(b.deactivate_sh, UnsetKw \o var \o NL),
                activate_bat |-> Extend(b.activate_bat,
                                        SetKw \o var \o Eq \o val \o NL),
                deactivate_bat |-> Extend(b.deactivate_bat,
                                          SetKw \o var \o Eq \o NL)],
               Tail(items))

Skeleton == [activate_sh |-> <<ShHeader>>, activate_bat |-> << << >> >>,
             deactivate_sh |-> <<ShHeader>>, deactivate_bat |-> << << >> >>]

\* (env_path / "etc/conda/<d>").mkdir(parents=True, exist_ok=True)
ScriptMkdir(s, d) ==
    IF s.err # NoError THEN s
    ELSE IF s.dirs[d] THEN s
    ELSE IF ~dirWritable
         THEN [s EXCEPT !.err = Err("PermissionError", "mkdir")]
    ELSE [s EXCEPT !.dirs[d] = TRUE]

\* the value of the mkdir(...) call expression: Path.mkdir returns None
MkdirValue(d) == None

\* with open(dir / "env_vars.<x>", "w+") as f: f.writelines(list)
WriteLines(s, dir, f, list) ==
    IF s.err # NoError THEN s
    ELSE IF dir = None
         THEN [s EXCEPT !.err = Err("TypeError", "truediv")]
    ELSE [s EXCEPT !.scripts[f] = Join(list)]

\* lines 98-149
SetEnvVars(ev) ==
    /\ Idle
    /\ op' = "set_env_vars"
    /\ env_vars' = ev
    /\ LET b == Buffers(Skeleton, ev)
           s0 == [scripts |-> scripts, dirs |-> scriptDirs, err |-> NoError]
           a1 == ScriptMkdir(s0, "activate.d")
           activate_dir == MkdirValue("activate.d")
           a2 == WriteLines(a1, activate_dir, "activate.sh", b.activate_sh)
           a3 == WriteLines(a2, activate_dir, "activate.bat", b.activate_bat)
           d1 == ScriptMkdir(a3, "deactivate.d")
           deactivate_dir == MkdirValue("deactivate.d")
           d2 == WriteLines(d1, deactivate_dir, "deactivate.sh",
                            b.deactivate_sh)
           d3 == WriteLines(d2, deactivate_dir, "deactivate.bat",
                            b.deactivate_bat)
       IN  /\ scripts' = d3.scripts
           /\ scriptDirs' = d3.dirs
           /\ err' = d3.err
    /\ pc' = "done"
    /\ UNCHANGED <<fsVars, worldVars, envs, env_name, enforce_readonly,
                   manifest, env_path, cmds, entryErr, bodyRan, prev>>

\* ordered mappings: no variable twice
Mappings ==
    {m \in SeqsUpTo(VarNames \X VarValues, MaxVars) :
        \A i, j \in 1..Len(m) : i # j => m[i][1] # m[j][1]}

OldScripts == [f \in DOMAIN NoScripts |-> <<"o", "l", "d", "\n">>]

InitVars ==
    /\ files = NoFiles
    /\ dirs = [k \in Names |-> FALSE]
    /\ owner = TRUE
    /\ dirWritable \in BOOLEAN
    /\ envs = <<Prefix>>
    /\ InitCall
    /\ prev = NoCall
    /\ env_vars = << >>
    /\ \/ /\ scripts = NoScripts
          /\ scriptDirs \in [DOMAIN NoScriptDirs -> BOOLEAN]
       \/ /\ scripts = OldScripts
          /\ scriptDirs = [d \in DOMAIN NoScriptDirs |-> TRUE]

NextVars == \E ev \in Mappings : SetEnvVars(ev)

SpecVars == InitVars /\ [][NextVars]_vars

\* ================================================================ claims
WritableFile(k) == files[k].exists /\ Writable(files[k].mode)
ReadOnlyFile(k) == files[k].exists /\ ReadOnly(files[k].mode)
Returned == pc = "done"
Mutations(c) == {i \in 1..Len(c) : c[i].cmd \in {"create", "update"}}

\* C1: once a body has run inside the guard and the guard has exited,
\* whether the body returned or raised, the base canary file (and the named
\* environment's, when the name is not "base") is read-only if
\* enforce_readonly is true and writable if it is false.
C1_GuardRestores ==
    (Returned /\ bodyRan) =>
        IF enforce_readonly
        THEN ReadOnlyFile(Base) /\ (env_name # Base => ReadOnlyFile(env_name))
        ELSE WritableFile(Base) /\ (env_name # Base => WritableFile(env_name))

C1_Witness ==
    /\ Returned /\ bodyRan /\ op = "writable"
    /\ err = Err("RuntimeError", "body")
    /\ enforce_readonly
    /\ env_name = EnvA
    /\ ReadOnlyFile(Base) /\ ReadOnlyFile(EnvA)

\* C2: while the guarded body executes the base canary file exists and is
\* writable, and so does the named environment's when the name is not
\* "base"; a create or update command is only ever started from inside the
\* guard, with those files writable.
C2_BodyInsideGuard ==
    /\ [](pc = "body" =>
            WritableFile(Base) /\ (env_name # Base => WritableFile(env_name)))
    /\ [][(\E i \in Mutations(cmds') : i > Len(cmds)) =>
            /\ pc = "body"
            /\ WritableFile(Base)
            /\ (env_name # Base => WritableFile(env_name))]_vars

C2_Witness ==
    /\ pc = "exit" /\ op = "update_from_yml"
    /\ env_name = EnvA
    /\ Mutations(cmds) # {}
    /\ WritableFile(Base) /\ WritableFile(EnvA)

\* C3: when a parent directory cannot be created or permission bits cannot
\* be changed on entry to the guard, the guard fails with a PermissionError,
\* the body never runs, and the error the caller gets is that entry failure.
C3_EntryFailureReported ==
    (Returned /\ entryErr.at \in {"mkdir", "chmod"}) =>
        /\ entryErr.type = "PermissionError"
        /\ ~bodyRan
        /\ err = entryErr

\* C4: find_env(n) returns a path exactly when some entry of the list
\* contains n as a substring, and then it is the first such entry; otherwise
\* it returns None.
C4_FindFirstMatch ==
    (Returned /\ op = "find_env") =>
        LET M == {i \in 1..Len(envs) : StrIn(env_name, envs[i])}
        IN  IF M = {} THEN env_path = None
            ELSE /\ env_path # None
                 /\ \E i \in M : /\ \A j \in M : i <= j
                                 /\ env_path = envs[i]

C4_Witness ==
    /\ Returned /\ op = "find_env"
    /\ Len(envs) = 2
    /\ ~StrIn(env_name, envs[1])
    /\ StrIn(env_name, envs[2])
    /\ env_name # envs[2]
    /\ env_path = envs[2]

\* C5: for a valid manifest update_from_yml asks the locator first and then
\* starts at most one create/update command; a call that returns normally
\* has started exactly one, update when the locator found the environment
\* and create when it did not; and with enforce_readonly the base canary
\* file is read-only once the guarded call has returned.
C5_OneMutation ==
    (Returned /\ op = "update_from_yml" /\ manifest.name # None
              /\ manifest.deps # << >>) =>
        /\ Cardinality(Mutations(cmds)) <= 1
        /\ Mutations(cmds) \subseteq {2}
        /\ cmds # << >> /\ cmds[1].cmd = "info"
        /\ err = NoError =>
             /\ Len(cmds) = 2
             /\ env_path # None => cmds[2].cmd = "update"
             /\ env_path = None => cmds[2].cmd = "create"
        /\ (bodyRan /\ enforce_readonly) => ReadOnlyFile(Base)

C5_Witness ==
    /\ Returned /\ op = "update_from_yml"
    /\ manifest = [name |-> EnvA, deps |-> <<"numpy">>]
    /\ err = NoError
    /\ env_path = None
    /\ cmds = <<Cmd("info", 0), Cmd("create", 0)>>
    /\ enforce_readonly /\ ReadOnlyFile(Base)

\* C6: a manifest with an empty dependency list is rejected, and no
\* subprocess is started for it.
C6_EmptyDepsRejected ==
    (op = "update_from_yml" /\ manifest.deps = << >>) =>
        /\ cmds = << >>
        /\ Returned => err # NoError

C8_FailureSurfaced ==
    (Returned /\ op = "update_from_yml"
              /\ \E i \in Mutations(cmds) : cmds[i].rc # 0) =>
        /\ err # NoError
        /\ enforce_readonly =>
             ReadOnlyFile(Base) /\ (env_name # Base => ReadOnlyFile(env_name))

\* C9: a second update_from_yml right after a successful first one, same
\* manifest, enforce_readonly true both times: provided the external tool
\* answers, the second call ends without error, runs update and not create,
\* and leaves the canary files as the first call left them, read-only.
C9_Precondition ==
    /\ Returned /\ op = "update_from_yml"
    /\ prev.op = "update_from_yml"
    /\ prev.manifest = manifest
    /\ manifest.name # None
    /\ prev.enforce /\ enforce_readonly
    /\ prev.err = NoError
    /\ \A i \in Mutations(prev.cmds) : prev.cmds[i].rc = 0

C9_SecondCallUpdates ==
    (C9_Precondition /\ cmds # << >> /\ cmds[1].rc = 0
                     /\ err # Err("FileNotFoundError", "body")) =>
        /\ err = NoError
        /\ Len(cmds) = 2
        /\ cmds[2].cmd = "update"
        /\ files = prev.files
        /\ ReadOnlyFile(Base)
        /\ env_name # Base => ReadOnlyFile(env_name)

C9_Witness ==
    /\ C9_Precondition
    /\ prev.cmds = <<Cmd("info", 0), Cmd("create", 0)>>
    /\ cmds = <<Cmd("info", 0), Cmd("update", 0)>>
    /\ err = NoError
    /\ files = prev.files

\* C10: set_env_vars completes and leaves four files determined by the
\* mapping alone: activate.d/env_vars.sh holds one `export VAR=value` line
\* per pair and deactivate.d/env_vars.sh one `unset VAR` line per pair, in
\* mapping order.
RECURSIVE ExportLines(_)
ExportLines(m) ==
    IF m = << >> THEN << >>
    ELSE ExportKw \o Head(m)[1] \o Eq \o Head(m)[2] \o NL
         \o ExportLines(Tail(m))

RECURSIVE UnsetLines(_)
UnsetLines(m) ==
    IF m = << >> THEN << >>
    ELSE UnsetKw \o Head(m)[1] \o NL \o UnsetLines(Tail(m))

C10_ScriptsWritten ==
    (Returned /\ op = "set_env_vars") =>
        /\ err = NoError
        /\ \A f \in DOMAIN scripts : scripts[f] # None
        /\ scripts["activate.sh"] = ShHeader \o ExportLines(env_vars)
        /\ scripts["deactivate.sh"] = ShHeader \o UnsetLines(env_vars)

====
